---- MODULE Spec2Model ----
(***************************************************************************)
(* Model of src/src/contexts/AuthContext.tsx: the AuthProvider session     *)
(* container (user / session / loading), its mount effect (subscription +  *)
(* initial getSession), the Discord-id profile sync, the pass-through auth *)
(* actions and signOut.  The identity backend and the profile store are    *)
(* the environment: their replies are inputs drawn from small sets.        *)
(***************************************************************************)
EXTENDS Naturals, Sequences, FiniteSets

\* ---------------------------------------------------------------- bounds
MaxNotifs == 2      \* change notifications the backend emits in one run

\* ------------------------------------------------------------ data model
Null == "null"      \* JavaScript null / undefined

\* Session objects the backend can report (Session, line 2).
Sessions == {"sA", "sB", "sC", "sD"}

\* session.user of each session (User objects; two sessions of the same
\* user id may carry different user_metadata).
SessionUserObj == [sA |-> "u1Y", sB |-> "u1Z", sC |-> "u2Y", sD |-> "u1N"]

\* user.id
UserIdOf == [u1Y |-> "u1", u1Z |-> "u1", u2Y |-> "u2", u1N |-> "u1"]

\* user.user_metadata?.provider_id
ProviderIdOf == [u1Y |-> "Y", u1Z |-> "Z", u2Y |-> "Y", u1N |-> Null]

\* user ids that have a row in the 'profiles' table: u1 logs in, u3 is
\* another user's row
ProfileRows == {"u1", "u3"}

\* a row of the 'profiles' table: the linked provider id and, standing for
\* the columns the Provider never names, level
Row(d) == [discord_id |-> d, level |-> 1]

\* values the discord_id column of an existing row can start with
InitialDiscordIds == {Null, "", "X"}

\* errors the identity backend can answer with (null = success)
AuthErrors == {Null, "E1", "E2"}

\* no value has been handed back yet
NoResult == [thrown |-> FALSE, error |-> "none"]

\* a request to the identity backend; fields a call does not send are null
Request(m, e, p, r, h, v) ==
  [method |-> m, email |-> e, password |-> p, redirect |-> r,
   hunter_name |-> h, provider |-> v]

\* arguments the UI passes to the actions, and window.location.origin
Emails == {"a@x.io", "b@x.io"}
Passwords == {"pw1", "pw2"}
HunterNames == {"Jin", "Woo"}
Origins == {"https://app.example", "http://localhost:8080"}

\* no action has been invoked yet
NoInput == [email |-> Null, password |-> Null, hunterName |-> Null,
            origin |-> Null]

\* the members of the context value that are functions (lines 149-153)
ActionNames == {"signUp", "signIn", "signInWithDiscord", "resetPassword",
                "signOut"}

\* createContext<AuthContextType | undefined>(undefined): the value seen
\* by a consumer that no AuthProvider encloses
Undefined ==
  [defined |-> FALSE, user |-> Null, session |-> Null, loading |-> FALSE,
   actions |-> {}]

\* useAuth has not been called yet
NoHook == [called |-> FALSE, enclosed |-> FALSE, threw |-> FALSE,
           value |-> Undefined]

VARIABLES
  user,        \* useState<User | null>            (line 27)
  session,     \* useState<Session | null>         (line 28)
  loading,     \* useState(true)                   (line 29)
  effectPc,    \* position inside the mount effect (lines 31-91): 1, 2, 3 = done
  sub,         \* the subscription handle: "none" | "active" | "released"
  unsubCount,  \* calls of subscription.unsubscribe()
  fetchPc,     \* getSession(): "idle" | "inflight" | "resolved"
  emitted,     \* notifications delivered to the subscribed handler so far
  missed,      \* a notification was emitted after getSession was issued
               \* while no handler had been subscribed
  runs,        \* profile-sync runs: [uid, pid, pc, via]
  profiles,    \* 'profiles' table: user_id -> row
  soPc,        \* signOut(): "idle" | "awaiting" | "doneOk" | "doneError"
  lastReport,  \* session of the report handled last, "none" before any
  cleared,     \* signOut cleared the local state after the last report
  callOp,      \* pass-through action in progress
  callPc,      \* "idle" | "awaiting" | "resolved" | "returned"
  callError,   \* error of the backend's answer to the call
  callResult,  \* value handed back to the caller
  callIn,      \* arguments of the invocation and the origin it read
  callReqs,    \* requests the invocation sent to the identity backend
  hook,        \* outcome of the last useAuth() call of a consumer
  pair         \* the sync of the notification handler and the sync of the
               \* fetch callback, each on its own copy of the store

vars == <<user, session, loading, effectPc, sub, unsubCount, fetchPc, emitted,
          missed, runs, profiles, soPc, lastReport, cleared,
          callOp, callPc, callError, callResult, callIn, callReqs, hook,
          pair>>

uiVars == <<user, session, loading>>
mountVars == <<effectPc, sub, unsubCount, fetchPc>>
syncVars == <<runs, profiles>>
soVars == <<soPc>>
callVars == <<callOp, callPc, callError, callResult, callIn, callReqs>>

\* ------------------------------------------------------- pure operators
\* session?.user ?? null
SessionUser(s) == IF s = Null THEN Null ELSE SessionUserObj[s]

\* if (session?.user) { discordId = ...provider_id; if (discordId) {...} }
\* in the notification handler (lines 38-41)
NeedsSyncIgnoresProviderId(s) == SessionUser(s) # Null
NeedsSync(s) ==
  /\ SessionUser(s) # Null
  /\ ProviderIdOf[SessionUser(s)] # Null
  /\ ProviderIdOf[SessionUser(s)] # ""

\* ... and in the fetch callback (lines 66-69)
NeedsSyncFetched(s) ==
  /\ SessionUser(s) # Null
  /\ ProviderIdOf[SessionUser(s)] # Null
  /\ ProviderIdOf[SessionUser(s)] # ""

\* JavaScript falsiness of a stored discord_id
Falsy(d) == d = Null \/ d = ""

\* if (profile && !profile.discord_id)
\* (hasRow: the read returned a row; discordId: its discord_id)
\* in the notification handler (line 48) and in the fetch callback (line 78)
ShouldUpdate(hasRow, discordId) == hasRow /\ Falsy(discordId)
ShouldUpdateFetchedAlways(hasRow, discordId) == hasRow
ShouldUpdateFetched(hasRow, discordId) == hasRow /\ Falsy(discordId)

\* setSession(session); setUser(session?.user ?? null) in the handler
NotifiedSession(s) == s
NotifiedUserKeepsOnNull(s) == IF s = Null THEN user ELSE SessionUserObj[s]
NotifiedUser(s) == SessionUser(s)

\* setSession(session); setUser(...); setLoading(false) in the fetch callback
FetchedSessionKeepsHeld(s) == IF session # Null THEN session ELSE s
FetchedSession(s) == s
FetchedUser(s) == SessionUser(s)
LoadingAfterFetchAwaitsSync(s) ==
  IF NeedsSyncFetched(s) THEN loading ELSE FALSE
LoadingAfterFetch(s) == FALSE

\* setUser(null); setSession(null) after the awaited sign-out call
SignedOutUserKept(outcome) == user
SignedOutUser(outcome) == Null
SignedOutSessionOnlyOnSuccess(outcome) ==
  IF outcome = "ok" THEN Null ELSE session
SignedOutSession(outcome) == Null

\* update({ discord_id: discordId }).eq('user_id', session.user.id) applied
\* to the table P, in the notification handler (lines 49-52) ...
UpdatedProfilesWritesUserId(P, uid, pid) ==
  [u \in DOMAIN P |->
     IF u = uid THEN [P[u] EXCEPT !.discord_id = uid] ELSE P[u]]
UpdatedProfilesAllRows(P, uid, pid) ==
  [u \in DOMAIN P |-> [P[u] EXCEPT !.discord_id = pid]]
UpdatedProfiles(P, uid, pid) ==
  [u \in DOMAIN P |->
     IF u = uid THEN [P[u] EXCEPT !.discord_id = pid] ELSE P[u]]

\* ... and in the fetch callback (lines 79-82)
UpdatedProfilesFetched(P, uid, pid) ==
  [u \in DOMAIN P |->
     IF u = uid THEN [P[u] EXCEPT !.discord_id = pid] ELSE P[u]]

\* the run the notification handler starts: it has issued the select for
\* session.user.id and awaits the answer (lines 39-46)
NewRun(s) ==
  [uid |-> UserIdOf[SessionUser(s)],
   pid |-> ProviderIdOf[SessionUser(s)],
   pc |-> "read",
   via |-> "notification"]

\* the run the fetch callback starts (lines 67-75)
NewRunFetched(s) ==
  [uid |-> UserIdOf[SessionUser(s)],
   pid |-> ProviderIdOf[SessionUser(s)],
   pc |-> "read",
   via |-> "fetch"]

RunsAfterReport(s) == IF NeedsSync(s) THEN Append(runs, NewRun(s)) ELSE runs
RunsAfterFetch(s) ==
  IF NeedsSyncFetched(s) THEN Append(runs, NewRunFetched(s)) ELSE runs

\* a run that has returned at position p: its locals (session, discordId,
\* profile) are gone
Ended(run, p) == [uid |-> Null, pid |-> Null, pc |-> p, via |-> run.via]

\* the run after its select answered with the row of table P
RunAfterRead(run, P) ==
  IF (IF run.via = "fetch"
      THEN ShouldUpdateFetched(TRUE, P[run.uid].discord_id)
      ELSE ShouldUpdate(TRUE, P[run.uid].discord_id))
  THEN [run EXCEPT !.pc = "update"]
  ELSE Ended(run, "skipped")

\* the table P after the run's update was applied
ProfilesAfterUpdate(run, P) ==
  IF run.via = "fetch"
  THEN UpdatedProfilesFetched(P, run.uid, run.pid)
  ELSE UpdatedProfiles(P, run.uid, run.pid)

\* order of the two calls of the mount effect
EffectOrderFetchFirst == <<"getSession", "subscribe">>
EffectOrder == <<"subscribe", "getSession">>

\* ------------------------------------------------------------------ Init
\* the two code paths that run the profile sync
Paths == {"notification", "fetch"}

\* the callback of a path has not run yet
NotStarted(v) == [uid |-> Null, pid |-> Null, pc |-> "idle", via |-> v]

\* the two callbacks are about to receive session s, each over a store equal
\* to P, and the store will answer both the same way
PairStart(s, r, w, P) ==
  [given |-> s, readOk |-> r, updateOk |-> w,
   at |-> [v \in Paths |-> NotStarted(v)],
   table |-> [v \in Paths |-> P],
   issued |-> [v \in Paths |-> <<>>]]

InitProvider ==
  /\ user = Null
  /\ session = Null
  /\ loading = TRUE
  /\ effectPc = 1
  /\ sub = "none"
  /\ unsubCount = 0
  /\ fetchPc = "idle"
  /\ emitted = 0
  /\ missed = FALSE
  /\ runs = <<>>
  /\ profiles \in {[u \in ProfileRows |->
                      IF u = "u1" THEN Row(d) ELSE Row("")] :
                     d \in InitialDiscordIds}
  /\ soPc = "idle"
  /\ lastReport = "none"
  /\ cleared = FALSE
  /\ callOp = "none"
  /\ callPc = "idle"
  /\ callError = Null
  /\ callResult = NoResult
  /\ callIn = NoInput
  /\ callReqs = <<>>
  /\ hook = NoHook

\* outside the side-by-side comparison no pair of callbacks is set up
NoPair ==
  PairStart(Null, FALSE, FALSE, [u \in ProfileRows |-> Row("")])

Init == InitProvider /\ pair = NoPair

InitPair ==
  /\ InitProvider
  /\ pair \in {PairStart(s, r, w, profiles) :
                 s \in Sessions \cup {Null}, r \in BOOLEAN, w \in BOOLEAN}

\* ---------------------------------------------------------- mount effect
\* supabase.auth.onAuthStateChange(handler)
Subscribe ==
  /\ effectPc \in 1..2
  /\ EffectOrder[effectPc] = "subscribe"
  /\ sub' = "active"
  /\ effectPc' = effectPc + 1
  /\ UNCHANGED <<uiVars, unsubCount, fetchPc, emitted, missed, syncVars, soVars, lastReport, cleared, callVars, hook, pair>>

\* supabase.auth.getSession()
GetSession ==
  /\ effectPc \in 1..2
  /\ EffectOrder[effectPc] = "getSession"
  /\ fetchPc' = "inflight"
  /\ effectPc' = effectPc + 1
  /\ UNCHANGED <<uiVars, sub, unsubCount, emitted, missed, syncVars, soVars, lastReport, cleared, callVars, hook, pair>>

\* return () => subscription.unsubscribe()
TeardownKeepsSubscription ==
  /\ effectPc = 3
  /\ sub = "active"
  /\ effectPc' = 4
  /\ UNCHANGED <<uiVars, sub, unsubCount, fetchPc, emitted, missed, syncVars, soVars, lastReport, cleared, callVars, hook, pair>>

Teardown ==
  /\ effectPc = 3
  /\ sub = "active"
  /\ sub' = "released"
  /\ unsubCount' = unsubCount + 1
  /\ effectPc' = 4
  /\ UNCHANGED <<uiVars, fetchPc, emitted, missed, syncVars, soVars, lastReport, cleared, callVars, hook, pair>>

\* ---------------------------------------------------- identity backend
\* The backend emits a change notification carrying session s while no
\* handler is subscribed: nobody hears it.
EmitUnheard(s) ==
  /\ sub # "active"
  /\ missed' = (missed \/ (fetchPc # "idle" /\ sub = "none"))
  /\ UNCHANGED <<uiVars, mountVars, emitted, syncVars, soVars, lastReport,
                 cleared, callVars, hook, pair>>

\* ------------------------------------------------------------ handlers
\* The backend emits a change notification carrying session s and calls the
\* subscribed handler: the onAuthStateChange callback, up to its first await
\* (lines 33-46).  The handler cannot run inside the mount effect.
AuthStateChange(s) ==
  /\ sub = "active"
  /\ effectPc >= 3
  /\ emitted < MaxNotifs
  /\ emitted' = emitted + 1
  /\ session' = NotifiedSession(s)
  /\ user' = NotifiedUser(s)
  /\ runs' = RunsAfterReport(s)
  /\ lastReport' = s
  /\ cleared' = FALSE
  /\ UNCHANGED <<loading, mountVars, missed, profiles, soVars, callVars, hook, pair>>

\* getSession().then callback, up to its first await (lines 60-75)
GetSessionResolved(s) ==
  /\ fetchPc = "inflight"
  /\ fetchPc' = "resolved"
  /\ session' = FetchedSession(s)
  /\ user' = FetchedUser(s)
  /\ loading' = LoadingAfterFetch(s)
  /\ runs' = RunsAfterFetch(s)
  /\ lastReport' = s
  /\ cleared' = FALSE
  /\ UNCHANGED <<effectPc, sub, unsubCount, emitted, missed, profiles, soVars, callVars, hook, pair>>

\* ---------------------------------------------------------- profile sync
\* a run per handled report: MaxNotifs notifications and the one fetch
RunIds == 1..(MaxNotifs + 1)

\* positions at which a run has ended
FinalPcs == {"written", "skipped", "readFailed", "updateFailed"}

SetRun(i, run) == [runs EXCEPT ![i] = run]

\* select('discord_id').eq('user_id', id).single() answers with the row
SyncReadOk(i) ==
  /\ i <= Len(runs)
  /\ runs[i].pc = "read"
  /\ runs[i].uid \in DOMAIN profiles
  /\ runs' = SetRun(i, RunAfterRead(runs[i], profiles))
  /\ UNCHANGED <<uiVars, mountVars, emitted, missed, profiles,
                 soVars, lastReport, cleared, callVars, hook, pair>>

\* ... answers { data: null } (no row, or the read failed)
SyncReadNullClearsSession(i) ==
  /\ i <= Len(runs)
  /\ runs[i].pc = "read"
  /\ runs' = SetRun(i, Ended(runs[i], "readFailed"))
  /\ session' = Null
  /\ user' = Null
  /\ UNCHANGED <<loading, mountVars, emitted, missed, profiles,
                 soVars, lastReport, cleared, callVars, hook, pair>>

SyncReadNull(i) ==
  /\ i <= Len(runs)
  /\ runs[i].pc = "read"
  /\ runs' = SetRun(i, Ended(runs[i], "readFailed"))
  /\ UNCHANGED <<uiVars, mountVars, emitted, missed, profiles,
                 soVars, lastReport, cleared, callVars, hook, pair>>

\* update({ discord_id }).eq('user_id', id) is applied by the store
SyncUpdateOk(i) ==
  /\ i <= Len(runs)
  /\ runs[i].pc = "update"
  /\ profiles' = ProfilesAfterUpdate(runs[i], profiles)
  /\ runs' = SetRun(i, Ended(runs[i], "written"))
  /\ UNCHANGED <<uiVars, mountVars, emitted, missed, soVars, lastReport, cleared, callVars, hook, pair>>

\* ... fails: the store is left as it was
SyncUpdateFail(i) ==
  /\ i <= Len(runs)
  /\ runs[i].pc = "update"
  /\ runs' = SetRun(i, Ended(runs[i], "updateFailed"))
  /\ UNCHANGED <<uiVars, mountVars, emitted, missed, profiles,
                 soVars, lastReport, cleared, callVars, hook, pair>>

\* ----------------------------------------------------------------- signOut
\* signOut() is invoked: await supabase.auth.signOut()
SignOutCall ==
  /\ soPc \in {"idle", "doneOk", "doneError"}
  /\ soPc' = "awaiting"
  /\ UNCHANGED <<uiVars, mountVars, emitted, missed, syncVars,
                 lastReport, cleared, callVars, hook, pair>>

\* the backend answers the sign-out call with outcome ("ok" | "error") and
\* signOut resumes: setUser(null); setSession(null)
SignOutFinish(outcome) ==
  /\ soPc = "awaiting"
  /\ user' = SignedOutUser(outcome)
  /\ session' = SignedOutSession(outcome)
  /\ cleared' = TRUE
  /\ soPc' = IF outcome = "ok" THEN "doneOk" ELSE "doneError"
  /\ UNCHANGED <<loading, mountVars, emitted, missed, syncVars,
                 lastReport, callVars, hook, pair>>

\* ------------------------------------------------- pass-through actions
\* return { error: error as Error | null }
SignUpResult(e) == [thrown |-> FALSE, error |-> e]
SignInResultDropsError(e) == [thrown |-> FALSE, error |-> Null]
SignInResult(e) == [thrown |-> FALSE, error |-> e]
SignInWithDiscordResult(e) == [thrown |-> FALSE, error |-> e]
ResetPasswordResult(e) == [thrown |-> FALSE, error |-> e]

\* the requests each action sends (lines 94-105, 111-114, 120-125, 131-133)
SignUpRequestsDropName(email, password, hunterName, origin) ==
  <<Request("signUp", email, password, origin \o "/", Null, Null)>>
SignUpRequests(email, password, hunterName, origin) ==
  <<Request("signUp", email, password, origin \o "/", hunterName, Null)>>
SignInRequests(email, password) ==
  <<Request("signInWithPassword", email, password, Null, Null, Null)>>
SignInWithDiscordRequests(origin) ==
  <<Request("signInWithOAuth", Null, Null, origin \o "/", Null, "discord")>>
ResetPasswordRequests(email, origin) ==
  <<Request("resetPasswordForEmail", email, Null, origin \o "/auth", Null,
            Null)>>

\* the action is invoked with input in, sends reqs and awaits the answer
StartCall(op, in, reqs) ==
  /\ callPc \in {"idle", "returned"}
  /\ callOp' = op
  /\ callPc' = "awaiting"
  /\ callError' = Null
  /\ callResult' = NoResult
  /\ callIn' = in
  /\ callReqs' = reqs
  /\ UNCHANGED <<uiVars, mountVars, emitted, missed, syncVars,
                 soVars, lastReport, cleared, hook, pair>>

\* the action returns to its caller
ReturnCall(op, result) ==
  /\ callOp = op
  /\ callPc = "resolved"
  /\ callResult' = result
  /\ callPc' = "returned"
  /\ UNCHANGED <<uiVars, mountVars, emitted, missed, syncVars,
                 soVars, lastReport, cleared, callOp, callError, callIn,
                 callReqs, hook, pair>>

\* the backend resolves the call with { error: e }
AuthAnswer(e) ==
  /\ callPc = "awaiting"
  /\ callError' = e
  /\ callPc' = "resolved"
  /\ UNCHANGED <<uiVars, mountVars, emitted, missed, syncVars,
                 soVars, lastReport, cleared, callOp, callResult, callIn,
                 callReqs, hook, pair>>

SignUp(email, password, hunterName, origin) ==
  StartCall("signUp",
            [email |-> email, password |-> password,
             hunterName |-> hunterName, origin |-> origin],
            SignUpRequests(email, password, hunterName, origin))
SignUpReturn == ReturnCall("signUp", SignUpResult(callError))
SignIn(email, password) ==
  StartCall("signIn",
            [email |-> email, password |-> password, hunterName |-> Null,
             origin |-> Null],
            SignInRequests(email, password))
SignInReturnClearsLoading ==
  /\ callOp = "signIn"
  /\ callPc = "resolved"
  /\ callResult' = SignInResult(callError)
  /\ callPc' = "returned"
  /\ loading' = FALSE
  /\ UNCHANGED <<user, session, mountVars, emitted, missed, syncVars,
                 soVars, lastReport, cleared, callOp, callError, callIn,
                 callReqs, hook, pair>>
SignInReturn == ReturnCall("signIn", SignInResult(callError))
SignInWithDiscord(origin) ==
  StartCall("signInWithDiscord",
            [email |-> Null, password |-> Null, hunterName |-> Null,
             origin |-> origin],
            SignInWithDiscordRequests(origin))
SignInWithDiscordReturn ==
  ReturnCall("signInWithDiscord", SignInWithDiscordResult(callError))
ResetPassword(email, origin) ==
  StartCall("resetPassword",
            [email |-> email, password |-> Null, hunterName |-> Null,
             origin |-> origin],
            ResetPasswordRequests(email, origin))
ResetPasswordReturn ==
  ReturnCall("resetPassword", ResetPasswordResult(callError))

\* ---------------------------------------------------------------- useAuth
\* the value the Provider passes down (lines 145-154)
ProvidedValue ==
  [defined |-> TRUE, user |-> user, session |-> session,
   loading |-> loading, actions |-> ActionNames]

\* useAuth(): throws when the context is undefined, else returns it
UseAuthResultNeverThrows(context) == [thrown |-> FALSE, value |-> context]
UseAuthResult(context) ==
  IF ~context.defined
  THEN [thrown |-> TRUE, value |-> Undefined]
  ELSE [thrown |-> FALSE, value |-> context]

\* a consumer, enclosed by the Provider or not, calls useAuth()
UseAuth(enclosed) ==
  /\ LET r == UseAuthResult(IF enclosed THEN ProvidedValue ELSE Undefined)
     IN hook' = [called |-> TRUE, enclosed |-> enclosed,
                 threw |-> r.thrown, value |-> r.value]
  /\ UNCHANGED <<uiVars, mountVars, emitted, missed, syncVars, soVars,
                 lastReport, cleared, callVars, pair>>

\* ------------------------------------------- the two syncs side by side
providerVars ==
  <<uiVars, mountVars, emitted, missed, syncVars, soVars, lastReport,
    cleared, callVars, hook>>

PairSet(v, run, P, ops) ==
  /\ pair' = [pair EXCEPT !.at[v] = run, !.table[v] = P,
                          !.issued[v] = pair.issued[v] \o ops]
  /\ UNCHANGED providerVars

\* the callback of path v receives the session and, when there is something
\* to link, issues the select (lines 38-46, 66-75)
PairReport(v) ==
  /\ pair.at[v].pc = "idle"
  /\ LET s == pair.given
         sync == IF v = "fetch" THEN NeedsSyncFetched(s) ELSE NeedsSync(s)
         run == IF v = "fetch" THEN NewRunFetched(s) ELSE NewRun(s)
     IN IF sync
        THEN PairSet(v, run, pair.table[v], <<<<"select", run.uid, Null>>>>)
        ELSE PairSet(v, Ended(NotStarted(v), "nothing"), pair.table[v], <<>>)

\* the select of path v answers with the row; the run issues its update or
\* returns (lines 48-52, 78-82)
PairReadOk(v) ==
  /\ pair.at[v].pc = "read"
  /\ pair.readOk
  /\ pair.at[v].uid \in DOMAIN pair.table[v]
  /\ LET run == RunAfterRead(pair.at[v], pair.table[v])
     IN PairSet(v, run, pair.table[v],
                IF run.pc = "update"
                THEN <<<<"update", run.uid, run.pid>>>> ELSE <<>>)

\* the select of path v answers { data: null }
PairReadNull(v) ==
  /\ pair.at[v].pc = "read"
  /\ ~pair.readOk \/ pair.at[v].uid \notin DOMAIN pair.table[v]
  /\ PairSet(v, Ended(pair.at[v], "readFailed"), pair.table[v], <<>>)

\* the update of path v is applied by the store
PairUpdateOk(v) ==
  /\ pair.at[v].pc = "update"
  /\ pair.updateOk
  /\ PairSet(v, Ended(pair.at[v], "written"),
             ProfilesAfterUpdate(pair.at[v], pair.table[v]), <<>>)

\* the update of path v fails
PairUpdateFail(v) ==
  /\ pair.at[v].pc = "update"
  /\ ~pair.updateOk
  /\ PairSet(v, Ended(pair.at[v], "updateFailed"), pair.table[v], <<>>)

NextPair ==
  \/ \E v \in Paths : PairReport(v)
  \/ \E v \in Paths : PairReadOk(v)
  \/ \E v \in Paths : PairReadNull(v)
  \/ \E v \in Paths : PairUpdateOk(v)
  \/ \E v \in Paths : PairUpdateFail(v)

SpecPair == InitPair /\ [][NextPair]_vars

\* -------------------------------------------------------------------- Next
Next ==
  \/ Subscribe
  \/ GetSession
  \/ Teardown
  \/ \E s \in Sessions \cup {Null} : EmitUnheard(s)
  \/ \E s \in Sessions \cup {Null} : AuthStateChange(s)
  \/ \E s \in Sessions \cup {Null} : GetSessionResolved(s)
  \/ \E i \in RunIds : SyncReadOk(i)
  \/ \E i \in RunIds : SyncReadNull(i)
  \/ \E i \in RunIds : SyncUpdateOk(i)
  \/ \E i \in RunIds : SyncUpdateFail(i)
  \/ SignOutCall
  \/ \E o \in {"ok", "error"} : SignOutFinish(o)

Spec == Init /\ [][Next]_vars

\* The pass-through actions, next to the session flows that write the
\* Provider's state.
NextActions ==
  \/ Subscribe
  \/ GetSession
  \/ \E s \in Sessions \cup {Null} : EmitUnheard(s)
  \/ \E s \in Sessions \cup {Null} : AuthStateChange(s)
  \/ \E s \in Sessions \cup {Null} : GetSessionResolved(s)
  \/ \E e \in Emails, p \in Passwords, n \in HunterNames, o \in Origins :
       SignUp(e, p, n, o)
  \/ \E e \in Emails, p \in Passwords : SignIn(e, p)
  \/ \E o \in Origins : SignInWithDiscord(o)
  \/ \E e \in Emails, o \in Origins : ResetPassword(e, o)
  \/ \E e \in AuthErrors : AuthAnswer(e)
  \/ SignUpReturn
  \/ SignInReturn
  \/ SignInWithDiscordReturn
  \/ ResetPasswordReturn

SpecActions == Init /\ [][NextActions]_vars

\* Consumers calling useAuth() while the session flows write the Provider's
\* state.
NextUseAuth ==
  \/ Subscribe
  \/ GetSession
  \/ \E s \in Sessions \cup {Null} : EmitUnheard(s)
  \/ \E s \in Sessions \cup {Null} : AuthStateChange(s)
  \/ \E s \in Sessions \cup {Null} : GetSessionResolved(s)
  \/ \E b \in BOOLEAN : UseAuth(b)

SpecUseAuth == Init /\ [][NextUseAuth]_vars

\* =================================================================== claims
UserOfReport(s) == IF s = Null THEN Null ELSE SessionUserObj[s]
IsSyncStep == Len(runs') = Len(runs) /\ runs' # runs
IsFetchResolution == fetchPc = "inflight" /\ fetchPc' = "resolved"
IsNotificationHandled == emitted' = emitted + 1
IsSignOutReturn == soPc = "awaiting" /\ soPc' \in {"doneOk", "doneError"}

\* C1 (as stated): once a report has been handled, the held session is the
\* session of the report handled last and the held user is that session's
\* user, for every interleaving of notifications, fetch response and signOut.
C1_HeldEqualsLastReport ==
  lastReport # "none" =>
    /\ session = lastReport
    /\ user = UserOfReport(lastReport)

\* C1 (amended): once a report has been handled, the held pair is the pair of
\* the report handled last, unless signOut has cleared the local state since
\* that report, in which case both are absent.
C1_HeldEqualsLastReportOrCleared ==
  lastReport # "none" =>
    IF cleared
    THEN session = Null /\ user = Null
    ELSE session = lastReport /\ user = UserOfReport(lastReport)

C1_Witness ==
  /\ soPc \in {"doneOk", "doneError"}
  /\ ~cleared
  /\ lastReport \in Sessions
  /\ session = lastReport
  /\ fetchPc = "resolved"

\* C2: once the discord_id of a profile row is non-empty, no step changes it
\* to a different value.
C2_NeverOverwritesNonEmpty ==
  [][\A u \in DOMAIN profiles :
       ~Falsy(profiles[u].discord_id)
         => profiles'[u].discord_id = profiles[u].discord_id]_vars

\* C3: when signOut returns, user and session are absent, whether the backend
\* sign-out call succeeded or failed.
C3_SignOutClears ==
  [][(soPc = "awaiting" /\ soPc' \in {"doneOk", "doneError"})
       => (user' = Null /\ session' = Null)]_vars

C3_Witness ==
  /\ soPc = "doneError"
  /\ lastReport \in Sessions
  /\ cleared
  /\ session = Null
  /\ user = Null

\* C4: loading starts true; its only change is true -> false, made by the step
\* in which the getSession fetch resolves, and that step always makes it
\* false; no notification changes it and it never returns to true.
C4_LoadingFalseOnceAtFetch ==
  /\ loading = TRUE
  /\ [][/\ (loading' # loading =>
              loading = TRUE /\ loading' = FALSE /\ IsFetchResolution)
        /\ (IsFetchResolution => loading' = FALSE)]_vars

C4_Witness ==
  /\ fetchPc = "resolved"
  /\ loading = FALSE
  /\ emitted = MaxNotifs
  /\ sub = "active"
  /\ Len(runs) > 0

\* C5: right after a notification is handled, the held session is the
\* notification's session and the held user is that session's user, absent
\* when the session is absent.
C5_UserFollowsNotification ==
  [][IsNotificationHandled =>
       /\ session' = lastReport'
       /\ user' = UserOfReport(lastReport')]_vars

C5_Witness ==
  /\ emitted = MaxNotifs
  /\ emitted >= 2
  /\ sub = "active"
  /\ fetchPc = "inflight"
  /\ lastReport = Null
  /\ user = Null
  /\ Len(runs) > 0

C7_SubscribedBeforeFetch ==
  /\ fetchPc # "idle" => sub # "none"
  /\ ~missed

C7_Witness ==
  /\ fetchPc = "inflight"
  /\ sub = "active"
  /\ emitted = MaxNotifs
  /\ lastReport \in Sessions

\* C8: unsubscribe is called exactly once, by the teardown: never while the
\* Provider is mounted, never twice, and every teardown calls it.
C8_ReleasedExactlyOnceOnTeardown ==
  /\ unsubCount = (IF effectPc = 4 THEN 1 ELSE 0)
  /\ (sub = "released" <=> effectPc = 4)
  /\ (effectPc = 3 => sub = "active")

C8_Witness ==
  /\ effectPc = 4
  /\ unsubCount = 1
  /\ sub = "released"
  /\ fetchPc = "resolved"

\* C9: no step of a profile-sync run (read or update, succeeding or failing)
\* changes user, session or loading, and the fetch resolution sets loading to
\* false in the same step that starts the sync.
C9_SyncIsFireAndForget ==
  [][/\ (IsSyncStep => UNCHANGED <<user, session, loading>>)
     /\ ((IsFetchResolution /\ Len(runs') > Len(runs)) => loading' = FALSE)]_vars

C9_Witness ==
  /\ loading = FALSE
  /\ session \in Sessions
  /\ Len(runs) >= 2
  /\ runs[1].pc = "readFailed"
  /\ runs[2].pc = "updateFailed"

\* C10: what signUp, signIn, signInWithDiscord and resetPassword hand back is
\* a returned { error } whose error is the error of the backend's answer
\* (null on success); nothing is thrown.
C10_NormalizedErrorResult ==
  callPc = "returned" =>
    /\ callResult.thrown = FALSE
    /\ callResult.error = callError

C10_Witness ==
  /\ callPc = "returned"
  /\ callOp = "signIn"
  /\ callError = "E1"
  /\ callResult.error = "E1"
\* C11: a useAuth() call of a consumer that no AuthProvider encloses throws
\* and returns no value; a call of an enclosed consumer does not throw and
\* returns the Provider's current value.
C11_UseAuthThrowsOutsideProvider ==
  [][hook' # hook =>
       IF hook'.enclosed
       THEN /\ ~hook'.threw
            /\ hook'.value = [defined |-> TRUE, user |-> user,
                              session |-> session, loading |-> loading,
                              actions |-> ActionNames]
       ELSE /\ hook'.threw
            /\ hook'.value = Undefined]_vars

C11_Witness ==
  /\ hook.called
  /\ ~hook.enclosed
  /\ hook.threw
  /\ fetchPc = "resolved"
  /\ session \in Sessions

\* C12: signUp(email, password, name) sends exactly one request to the
\* backend: a register call with the given email and password, metadata
\* hunter_name = name, the redirect origin + "/" and nothing else.
C12_SignUpRequest ==
  (callOp = "signUp" /\ callPc # "idle") =>
    callReqs = <<[method |-> "signUp",
                  email |-> callIn.email,
                  password |-> callIn.password,
                  redirect |-> callIn.origin \o "/",
                  hunter_name |-> callIn.hunterName,
                  provider |-> Null]>>

C12_Witness ==
  /\ callOp = "signUp"
  /\ callPc = "returned"
  /\ Len(callReqs) = 1
  /\ callReqs[1].email = "b@x.io"
  /\ callReqs[1].password = "pw2"
  /\ callReqs[1].hunter_name = "Woo"
  /\ callReqs[1].redirect = "http://localhost:8080/"

\* C13: every write of the session state replaces the whole pair: the
\* handler and the fetch callback write (session, session's user), signOut
\* writes (absent, absent), nothing else changes the pair, and so the held
\* user is always the held session's user.
C13_CompletePairWrites ==
  /\ [](user = UserOfReport(session))
  /\ [][/\ (IsNotificationHandled \/ IsFetchResolution)
             => (session' = lastReport' /\ user' = UserOfReport(lastReport'))
        /\ IsSignOutReturn => (session' = Null /\ user' = Null)
        /\ (session' # session \/ user' # user)
             => (IsNotificationHandled \/ IsFetchResolution
                   \/ IsSignOutReturn)]_vars

C13_Witness ==
  /\ fetchPc = "resolved"
  /\ emitted = MaxNotifs
  /\ soPc = "doneOk"
  /\ ~cleared
  /\ session \in Sessions
  /\ user = SessionUserObj[session]

\* C14: two runs for the same user id that have both read an empty
\* discord_id and are both about to update write the same value.
C14_RacingRunsWriteSameValue ==
  \A i, j \in 1..Len(runs) :
    (runs[i].pc = "update" /\ runs[j].pc = "update"
       /\ runs[i].uid = runs[j].uid)
      => runs[i].pid = runs[j].pid

\* C15: a report whose session is absent, or whose user carries no provider
\* id, starts no profile read and no update and leaves the store as it is.
C15_NothingToLinkNoStoreAccess ==
  [][((IsNotificationHandled \/ IsFetchResolution)
        /\ (lastReport' = Null
              \/ ProviderIdOf[SessionUserObj[lastReport']] = Null))
       => (runs' = runs /\ profiles' = profiles)]_vars

C15_Witness ==
  /\ lastReport = "sD"
  /\ session = "sD"
  /\ fetchPc = "resolved"
  /\ emitted = MaxNotifs
  /\ runs = <<>>

\* C16: the store changes only by a run's update, which writes the discord_id
\* of the row of the run's user id, the id of the reported user: no row is
\* created or removed, no other row and no other field changes.
C16_OnlyDiscordIdOfOwnRow ==
  [][/\ DOMAIN profiles' = DOMAIN profiles
     /\ Len(runs') > Len(runs)
          => runs'[Len(runs')].uid = UserIdOf[SessionUserObj[lastReport']]
     /\ profiles' # profiles
          => \E i \in 1..Len(runs) :
               /\ runs[i].pc = "update"
               /\ runs'[i].pc = "written"
               /\ \A u \in DOMAIN profiles :
                    /\ u # runs[i].uid => profiles'[u] = profiles[u]
                    /\ profiles'[u].level = profiles[u].level]_vars

C16_Witness ==
  /\ \E i \in 1..Len(runs) : runs[i].pc = "written"
  /\ \E i \in 1..Len(runs) : runs[i].pc = "readFailed"
  /\ lastReport = "sC"
  /\ DOMAIN profiles = ProfileRows
  /\ profiles["u3"] = Row("")
  /\ profiles["u1"] = Row("Y")

\* C19 (as stated): once the teardown has run, user, session and loading are
\* not written and no profile sync is started.
C19_NoWritesAfterTeardown ==
  [][effectPc = 4
       => (UNCHANGED <<user, session, loading>> /\ Len(runs') = Len(runs))]_vars

\* C19 (amended): once the teardown has run, no notification is handled any
\* more; user, session and loading are written only by the callback of the
\* getSession request issued at mount, which is not cancelled, and by a
\* signOut; a profile sync is started only by that callback.
C19_AfterTeardownOnlyPendingCalls ==
  [][effectPc = 4
       => /\ emitted' = emitted
          /\ (user' # user \/ session' # session \/ loading' # loading)
               => (IsFetchResolution \/ IsSignOutReturn)
          /\ Len(runs') # Len(runs) => IsFetchResolution]_vars

C19_Witness ==
  /\ effectPc = 4
  /\ sub = "released"
  /\ fetchPc = "resolved"
  /\ emitted = 0
  /\ session = "sA"
  /\ loading = FALSE
  /\ Len(runs) = 1
  /\ runs[1].via = "fetch"

\* C18: no step of signUp, signIn, signInWithDiscord or resetPassword
\* (invocation, backend answer, return) changes user, session or loading;
\* next to these actions the three change only when a notification or the
\* fetch response is handled.
C18_ActionsLeaveStateAlone ==
  [][/\ callPc' # callPc => UNCHANGED <<user, session, loading>>
     /\ (user' # user \/ session' # session \/ loading' # loading)
          => (IsNotificationHandled \/ IsFetchResolution)]_vars

C18_Witness ==
  /\ callOp = "signIn"
  /\ callPc = "returned"
  /\ callError = Null
  /\ sub = "active"
  /\ emitted = 0
  /\ fetchPc = "inflight"
  /\ session = Null
  /\ user = Null
  /\ loading = TRUE

\* C17: given the same session over the same store, with the store answering
\* both the same way, the sync of the notification handler and the sync of
\* the fetch callback end at the same position, have issued the same
\* sequence of selects and updates and leave the same store.
C17_BothPathsSameRoutine ==
  (\A v \in Paths : pair.at[v].pc \in FinalPcs \cup {"nothing"}) =>
    /\ pair.at["notification"].pc = pair.at["fetch"].pc
    /\ pair.issued["notification"] = pair.issued["fetch"]
    /\ pair.table["notification"] = pair.table["fetch"]

C17_Witness ==
  /\ pair.given = "sA"
  /\ \A v \in Paths : pair.at[v].pc = "written"
  /\ \A v \in Paths :
       pair.issued[v] = <<<<"select", "u1", Null>>, <<"update", "u1", "Y">>>>
  /\ \A v \in Paths : pair.table[v]["u1"] = Row("Y")

====
